---- MODULE Spec2Model ----
(***************************************************************************)
(* py3status clock module (src/py3status/modules/clock.py).                *)
(*                                                                         *)
(* The model follows one Py3status instance: post_config_hook builds the   *)
(* state (Init), the host then calls clock() (a poll) and on_click() (a    *)
(* button event) serially while the wall clock advances.  time() is an     *)
(* integer number of seconds; one call of clock() or on_click() happens at *)
(* one instant `now`.  Strings are sequences of one-character strings.     *)
(*                                                                         *)
(* An exception raised by a call (ZeroDivisionError, IndexError) is        *)
(* recorded in `result`; the assignments made before the raise are kept,   *)
(* as in Python.                                                           *)
(***************************************************************************)
EXTENDS Integers, Sequences, FiniteSets

(***************************************************************************)
(* Bounds of the model.                                                    *)
(***************************************************************************)
\* seconds of wall-clock time followed after initialization
MaxElapsed == 5
\* largest configured cycle interval, in seconds
MaxCycle == 2
\* click events delivered in one run
MaxClicks == 2

(***************************************************************************)
(* Configurations.                                                         *)
(***************************************************************************)
\* Instants at which post_config_hook may run (epoch seconds): shortly
\* before a minute boundary, so that the polls that follow fall on both
\* sides of it.
StartTimes == {58}

\* slot strings: "{Local}", "{GMT}", "{de} {xx}"
SlotLocal == <<"{", "L", "o", "c", "a", "l", "}">>
SlotGMT == <<"{", "G", "M", "T", "}">>
SlotDeXx == <<"{", "d", "e", "}", " ", "{", "x", "x", "}">>

\* `format` given as a plain string (the class default is "{Local}")
FormatStrings == {SlotLocal}
\* `format` given as a list: empty, two slots, three slots
FormatLists == {<<>>, <<SlotGMT, SlotDeXx>>, <<SlotGMT, SlotDeXx, SlotLocal>>}

\* time-format strings
\* "[{name_} ]%c"
FmtC == <<"[", "{", "n", "a", "m", "e", "_", "}", " ", "]", "%", "c">>
\* "[{name_} ]%x %X"
FmtX == <<"[", "{", "n", "a", "m", "e", "_", "}", " ", "]", "%", "x", " ", "%", "X">>
\* "[{name_} ]%a %H:%M"
FmtHM == <<"[", "{", "n", "a", "m", "e", "_", "}", " ", "]", "%", "a", " ", "%", "H", ":", "%", "M">>
\* "[{name_} ]{icon}"
FmtIcon == <<"[", "{", "n", "a", "m", "e", "_", "}", " ", "]", "{", "i", "c", "o", "n", "}">>
\* "{name} %H:%M"
FmtNameHM == <<"{", "n", "a", "m", "e", "}", " ", "%", "H", ":", "%", "M">>
\* "%S.%f"
FmtMicro == <<"%", "S", ".", "%", "f">>
\* "%H:%M:%S"
FmtHMS == <<"%", "H", ":", "%", "M", ":", "%", "S">>

\* `format_time` given as a plain string
FormatTimeStrings == {FmtNameHM}
\* `format_time` given as a list: empty, the class default, and a list holding
\* a sub-second format
FormatTimeLists == {<<>>, <<FmtC, FmtX, FmtHM, FmtIcon>>, <<FmtMicro, FmtHMS>>}

\* self.format after `if not isinstance(self.format, list)`
ConfiguredFormats == {<<s>> : s \in FormatStrings} \cup FormatLists

\* self.format_time after `if not isinstance(self.format_time, list)`
ConfiguredFormatTimes == {<<s>> : s \in FormatTimeStrings} \cup FormatTimeLists

\* <<button_reset, button_change_time_format, button_change_format>>: the
\* class defaults, each action disabled in turn (0), all disabled, and the
\* configurations where actions share one button identifier
ButtonConfigs ==
    {<<3, 2, 1>>,
     <<0, 2, 1>>, <<3, 0, 1>>, <<3, 2, 0>>, <<0, 0, 0>>,
     <<1, 1, 2>>, <<1, 2, 1>>, <<2, 1, 1>>, <<1, 1, 1>>}

\* button identifiers a click event may carry: X11 button numbers, which
\* start at 1 (left, middle, right, wheel up)
EventButtons == 1..4

(***************************************************************************)
(* String helpers (str.replace, re.sub, `in`).                             *)
(***************************************************************************)
RECURSIVE StripPlaceholders(_)
\* re.sub('\{([^}]*)\}', '', s): every leftmost span from a "{" to the next
\* "}" is removed; a "{" with no "}" after it stays.
StripPlaceholders(s) ==
    IF s = <<>> THEN <<>>
    ELSE IF Head(s) = "{" /\ \E i \in 2..Len(s) : s[i] = "}"
         THEN LET j == CHOOSE i \in 2..Len(s) :
                           /\ s[i] = "}"
                           /\ \A k \in 2..(i - 1) : s[k] # "}"
              IN StripPlaceholders(SubSeq(s, j + 1, Len(s)))
         ELSE <<Head(s)>> \o StripPlaceholders(Tail(s))

RECURSIVE StripEscapedPercent(_)
\* s.replace('%%', ''): non-overlapping occurrences, left to right
StripEscapedPercent(s) ==
    IF Len(s) < 2 THEN s
    ELSE IF s[1] = "%" /\ s[2] = "%"
         THEN StripEscapedPercent(SubSeq(s, 3, Len(s)))
         ELSE <<Head(s)>> \o StripEscapedPercent(Tail(s))

\* '%<d>' in s
HasDirective(s, d) ==
    \E i \in 1..(Len(s) - 1) : s[i] = "%" /\ s[i + 1] = d

TimeDelta_CoarsestFirst(fmt) ==
    LET format_time == StripEscapedPercent(StripPlaceholders(fmt))
    IN IF HasDirective(format_time, "X") THEN 1
       ELSE IF HasDirective(format_time, "c") THEN 1
       ELSE IF HasDirective(format_time, "S") THEN 1
       ELSE IF HasDirective(format_time, "f") THEN 0
       ELSE 60

\* the time_delta post_config_hook computes for one format_time string
TimeDelta(fmt) ==
    LET format_time == StripEscapedPercent(StripPlaceholders(fmt))
    IN IF HasDirective(format_time, "f") THEN 0
       ELSE IF HasDirective(format_time, "S") THEN 1
       ELSE IF HasDirective(format_time, "c") THEN 1
       ELSE IF HasDirective(format_time, "X") THEN 1
       ELSE 60

Min(a, b) == IF a <= b THEN a ELSE b

(***************************************************************************)
(* The timezone database (pytz, tzlocal) and _get_timezone.                *)
(***************************************************************************)
ZoneGMT == <<"G", "M", "T">>
ZoneBerlin == <<"E", "u", "r", "o", "p", "e", "/", "B", "e", "r", "l", "i", "n">>
ZoneBusingen == <<"E", "u", "r", "o", "p", "e", "/", "B", "u", "s", "i", "n", "g", "e", "n">>

\* pytz.timezone(name) succeeds for these names
AllTimezones == {ZoneGMT, ZoneBerlin, ZoneBusingen}

\* pytz.country_timezones: the codes it knows, each with its zones in order
CountryCodes == {<<"d", "e">>}
CountryTimezones(code) == <<ZoneBerlin, ZoneBusingen>>

\* tzlocal.get_localzone(): the zone of the machine, or NoLocalZone when it
\* raises pytz.UnknownTimeZoneError
NoLocalZone == <<>>
LocalZones == {ZoneBerlin, NoLocalZone}

TokenLocal == <<"L", "o", "c", "a", "l">>

\* the marker '?' kept for a token that does not resolve
Unresolved == <<"?">>

\* _get_timezone: the zone's name (zone.zone), or '?'
GetTimezone(tz, local) ==
    IF tz = TokenLocal
    THEN IF local # NoLocalZone THEN local ELSE Unresolved
    ELSE LET name == IF Len(tz) = 2 /\ tz \in CountryCodes
                     THEN CountryTimezones(tz)[1]
                     ELSE tz
         IN IF Len(tz) = 2 /\ tz \notin CountryCodes THEN Unresolved
            ELSE IF name \in AllTimezones THEN name
            ELSE Unresolved

RECURSIVE Join(_)
\* ''.join(list)
Join(list) == IF list = <<>> THEN <<>> ELSE Head(list) \o Join(Tail(list))

RECURSIVE FindTokens(_)
\* re.findall('\{([^}]*)\}', s): the text between each leftmost "{" and the
\* next "}", in order
FindTokens(s) ==
    IF s = <<>> THEN <<>>
    ELSE IF Head(s) = "{" /\ \E i \in 2..Len(s) : s[i] = "}"
         THEN LET j == CHOOSE i \in 2..Len(s) :
                           /\ s[i] = "}"
                           /\ \A k \in 2..(i - 1) : s[k] # "}"
              IN <<SubSeq(s, 2, j - 1)>> \o FindTokens(SubSeq(s, j + 1, Len(s)))
         ELSE FindTokens(Tail(s))

Range(seq) == {seq[i] : i \in 1..Len(seq)}

\* self._items: one entry per match of the pattern in ''.join(self.format)
Items(fmt, local) ==
    [tok \in Range(FindTokens(Join(fmt))) |-> GetTimezone(tok, local)]

(***************************************************************************)
(* State.                                                                  *)
(***************************************************************************)
VARIABLES
    format,                     \* self.format: the list of slots
    format_time,                \* self.format_time: the list of time formats
    time_deltas,                \* self.time_deltas: granularity per time format
    cycle,                      \* self.cycle
    button_reset,               \* self.button_reset
    button_change_time_format,  \* self.button_change_time_format
    button_change_format,       \* self.button_change_format
    active,                     \* self.active: index of the active slot
    active_time_format,         \* self.active_time_format
    cycle_time,                 \* self._cycle_time: next auto-cycle deadline
    now,                        \* time(): the wall clock
    result,                     \* outcome of the most recent call
    items,                      \* self._items: token -> zone name or '?'
    multiple_tz,                \* self.multiple_tz
    times,                      \* the `times` dict of the most recent call, if a poll built one
    local_zone,                 \* environment: what tzlocal reports
    cycle_cfg,                  \* history: self.cycle as configured
    probe,                      \* inputs and result of a function explored on its own
    t0,                         \* history: instant of post_config_hook
    last,                       \* history: the most recent call and the state it found
    clicks,                     \* history: click events delivered so far
    presses,                    \* history: events whose button was button_change_time_format
    late,                       \* history: some poll came after the deadline in force
    reset_at                    \* history: instant of a reset click not followed by a click, or -1

vars == <<format, format_time, time_deltas, cycle, button_reset,
          button_change_time_format, button_change_format, active,
          active_time_format, cycle_time, now, result, t0, last, clicks,
          presses, late, reset_at, items, multiple_tz, times, local_zone,
          cycle_cfg, probe>>

config == <<format, format_time, time_deltas, cycle, button_reset,
            button_change_time_format, button_change_format, t0, items,
            multiple_tz, local_zone, cycle_cfg, probe>>

\* number of configured slots and of configured time formats
N == Len(format)
M == Len(format_time)

NoResult == [status |-> "none", cached_until |-> -1]
Raised == [status |-> "error", cached_until |-> -1]
Returned(timeout) == [status |-> "ok", cached_until |-> timeout]

\* the most recent call built no `times` dict, or raised
NoTimes == [tok \in {} |-> <<>>]

\* `probe` while the module itself is followed
NoProbe == [kind |-> "none"]

Call(op, button, branch) ==
    [op |-> op, button |-> button, branch |-> branch, at |-> now,
     active |-> active, active_time_format |-> active_time_format,
     cycle_time |-> cycle_time]

(***************************************************************************)
(* post_config_hook                                                        *)
(***************************************************************************)
EffectiveCycle_Keep(fmt, c) == c

\* `if len(self.format) == 1: self.cycle = 0`
EffectiveCycle(fmt, c) == IF Len(fmt) = 1 THEN 0 ELSE c

\* the machine's local zone matters only when some slot names {Local}
LocalZonesFor(fmt) ==
    IF TokenLocal \in Range(FindTokens(Join(fmt)))
    THEN LocalZones
    ELSE {ZoneBerlin}

\* the configured cycle matters only when it is not overridden
CyclesFor(fmt) == IF Len(fmt) = 1 THEN {0} ELSE 0..MaxCycle

\* the class defaults of the three buttons
DefaultButtons == <<3, 2, 1>>

PostConfigHook(f, ft, c, t, b, l) ==
        /\ format = f
        /\ format_time = ft
        /\ time_deltas = [i \in 1..Len(ft) |-> TimeDelta(ft[i])]
        /\ cycle = EffectiveCycle(f, c)
        /\ button_reset = b[1]
        /\ button_change_time_format = b[2]
        /\ button_change_format = b[3]
        /\ active_time_format = 0
        /\ cycle_time = t + EffectiveCycle(f, c)
        /\ active = 0
        /\ now = t
        /\ t0 = t
        /\ result = NoResult
        /\ last = [op |-> "post_config_hook", button |-> 0, branch |-> "none",
                   at |-> t, active |-> 0, active_time_format |-> 0,
                   cycle_time |-> t + EffectiveCycle(f, c)]
        /\ clicks = 0
        /\ presses = 0
        /\ late = FALSE
        /\ reset_at = -1
        /\ items = Items(f, l)
        /\ multiple_tz = (Cardinality(DOMAIN Items(f, l)) > 1)
        /\ times = NoTimes
        /\ local_zone = l
        /\ cycle_cfg = c

\* Every format, time-format, cycle and button configuration, on a machine
\* whose local zone is known.
Init ==
    \E f \in ConfiguredFormats, ft \in ConfiguredFormatTimes,
       t \in StartTimes, b \in ButtonConfigs :
        \E c \in CyclesFor(f) :
            /\ PostConfigHook(f, ft, c, t, b, ZoneBerlin)
            /\ probe = NoProbe

\* Every format, time-format and cycle configuration (also a cycle given
\* with a single slot), on every machine, with the default buttons.
InitEnv ==
    \E f \in ConfiguredFormats, ft \in ConfiguredFormatTimes,
       c \in 0..MaxCycle, t \in StartTimes :
        \E l \in LocalZonesFor(f) :
            /\ PostConfigHook(f, ft, c, t, DefaultButtons, l)
            /\ probe = NoProbe

(***************************************************************************)
(* The wall clock.                                                         *)
(***************************************************************************)
Tick ==
    /\ now - t0 < MaxElapsed
    /\ now' = now + 1
    /\ UNCHANGED <<config, active, active_time_format, cycle_time, result,
                   last, clicks, presses, late, reset_at, times>>

(***************************************************************************)
(* _change_active, and the deadline arithmetic                             *)
(***************************************************************************)
ChangeActive_NoWrap(a, diff, n) == a + diff

ChangeActive_Saturate(a, diff, n) == IF a + diff >= n THEN a ELSE a + diff

\* (self.active + diff) % len(self.format); n = 0 raises ZeroDivisionError,
\* which the callers below handle before they use this.
ChangeActive(a, diff, n) == (a + diff) % n

Rearm_Stale(t) == cycle_time

Rearm_NoInterval(t) == t

\* time() + self.cycle
Rearm(t) == t + cycle

CycleDue_Strict(t) == cycle # 0 /\ t > cycle_time

CycleDue_Always(t) == cycle # 0

\* `if self.cycle and time() >= self._cycle_time`
CycleDue(t) == cycle # 0 /\ t >= cycle_time

Timeout_Unaligned(t, d) == IF d # 0 THEN t + d ELSE 0

\* the granularity deadline: now + d - now % d, or 0 when d is 0
Timeout(t, d) == IF d # 0 THEN t + d - (t % d) ELSE 0

CachedUntil_NoCycle(timeout, deadline) == timeout

\* `if self.cycle: timeout = min(timeout, cycle_timeout)`
CachedUntil(timeout, deadline) ==
    IF cycle # 0 THEN Min(timeout, deadline) ELSE timeout

(***************************************************************************)
(* clock: one poll                                                         *)
(***************************************************************************)
\* a value of the `times` dict: the literal text, or what strftime makes of
\* the active time format in the zone at the instant (the renderer is a
\* collaborator; its output is kept as its inputs)
Literal(text) ==
    [kind |-> "literal", text |-> text, zone |-> <<>>, format |-> -1, at |-> -1]

\* fmt is the index of the time format in self.format_time
Strftime(zone, fmt, t) ==
    [kind |-> "strftime", text |-> <<>>, zone |-> zone, format |-> fmt, at |-> t]

RenderTime_Always(zone, fmt, t) == Strftime(zone, fmt, t)

\* the loop body of clock(): '?' for a zone that is '?', the formatted time
\* otherwise
RenderTime(zone, fmt, t) ==
    IF zone = Unresolved THEN Literal(Unresolved) ELSE Strftime(zone, fmt, t)

Clock ==
    LET due == CycleDue(now)
    IN /\ IF due /\ N = 0
          THEN \* _change_active divides by len(self.format) = 0 and raises
               \* before anything is assigned
               /\ result' = Raised
               /\ times' = NoTimes
               /\ UNCHANGED <<active, cycle_time>>
          ELSE LET a == IF due THEN ChangeActive(active, 1, N) ELSE active
                   deadline == IF due THEN Rearm(now) ELSE cycle_time
               IN /\ active' = a
                  /\ cycle_time' = deadline
                  /\ result' =
                       \* self.time_deltas[self.active_time_format] and
                       \* self.format[self.active] raise IndexError when the
                       \* index is not in the list
                       IF active_time_format >= M \/ a >= N
                       THEN Raised
                       ELSE Returned(CachedUntil(
                                Timeout(now, time_deltas[active_time_format + 1]),
                                deadline))
                  /\ times' =
                       IF active_time_format >= M \/ a >= N
                       THEN NoTimes
                       ELSE [tok \in DOMAIN items |->
                                RenderTime(items[tok], active_time_format, now)]
       /\ last' = Call("clock", 0, "none")
       /\ late' = (late \/ (cycle # 0 /\ now > cycle_time))
       /\ UNCHANGED <<config, active_time_format, now, clicks, presses, reset_at>>

(***************************************************************************)
(* on_click: one button event                                              *)
(***************************************************************************)
NextTimeFormat_OffByOne(i, m) == IF i + 1 > m THEN 0 ELSE i + 1

NextTimeFormat_Clamp(i, m) == IF i + 1 >= m THEN i ELSE i + 1

\* `self.active_time_format += 1`, back to 0 once it reaches
\* len(self.format_time)
NextTimeFormat(i, m) == IF i + 1 >= m THEN 0 ELSE i + 1

Branch_TrailingElse(b) ==
    IF b = button_reset THEN "reset"
    ELSE IF b = button_change_time_format THEN "time_format"
    ELSE "format"

Branch_ZeroMatchesAny(b) ==
    IF b = button_reset \/ button_reset = 0 THEN "reset"
    ELSE IF b = button_change_time_format \/ button_change_time_format = 0
         THEN "time_format"
    ELSE IF b = button_change_format \/ button_change_format = 0 THEN "format"
    ELSE "none"

Branch_ReverseOrder(b) ==
    IF b = button_change_format THEN "format"
    ELSE IF b = button_change_time_format THEN "time_format"
    ELSE IF b = button_reset THEN "reset"
    ELSE "none"

\* the if / elif / elif chain of on_click: the branch an event takes
Branch(b) ==
    IF b = button_reset THEN "reset"
    ELSE IF b = button_change_time_format THEN "time_format"
    ELSE IF b = button_change_format THEN "format"
    ELSE "none"

\* on_click returns None
Done == [status |-> "done", cached_until |-> -1]

OnClick(b) ==
    LET branch == Branch(b)
    IN /\ clicks < MaxClicks
       /\ CASE branch = "reset" ->
                 /\ active' = 0
                 /\ cycle_time' = Rearm(now)
                 /\ result' = Done
                 /\ UNCHANGED active_time_format
            [] branch = "time_format" ->
                 /\ active_time_format' = NextTimeFormat(active_time_format, M)
                 /\ result' = Done
                 /\ UNCHANGED <<active, cycle_time>>
            [] branch = "format" ->
                 IF N = 0
                 THEN \* _change_active raises ZeroDivisionError
                      /\ result' = Raised
                      /\ UNCHANGED <<active, active_time_format, cycle_time>>
                 ELSE /\ active' = ChangeActive(active, 1, N)
                      /\ result' = Done
                      /\ UNCHANGED <<active_time_format, cycle_time>>
            [] OTHER ->
                 /\ result' = Done
                 /\ UNCHANGED <<active, active_time_format, cycle_time>>
       /\ last' = Call("on_click", b, branch)
       /\ clicks' = clicks + 1
       /\ presses' = IF b = button_change_time_format THEN presses + 1 ELSE presses
       /\ reset_at' = IF branch = "reset" THEN now ELSE -1
       /\ times' = NoTimes
       /\ UNCHANGED <<config, now, late>>

(***************************************************************************)
(* The host: polls and button events, serially, as time passes.            *)
(***************************************************************************)
Next ==
    \/ Tick
    \/ Clock
    \/ \E b \in EventButtons : OnClick(b)

Spec == Init /\ [][Next]_vars

SpecEnv == InitEnv /\ [][Next]_vars

(***************************************************************************)
(* The host over unbounded time.  clock() and on_click() read the wall     *)
(* clock only to compare it with, or add the interval to, the cycle        *)
(* deadline, so time is kept relative: the present instant stays the       *)
(* origin `now` and a second that passes brings the deadline one second    *)
(* closer.  Once the deadline is due, further seconds change nothing that  *)
(* the two methods can tell.                                               *)
(***************************************************************************)
LiveTick ==
    /\ cycle_time > now
    /\ cycle_time' = cycle_time - 1
    /\ UNCHANGED <<config, active, active_time_format, now, result, last,
                   clicks, presses, late, reset_at, times>>

LiveNext ==
    \/ LiveTick
    \/ Clock
    \/ \E b \in EventButtons : OnClick(b)

\* Time keeps advancing and the host keeps polling (py3status calls clock()
\* again whenever cached_until has passed); click events are the user's
\* and come at most MaxClicks times.
SpecLive ==
    /\ InitEnv
    /\ [][LiveNext]_vars
    /\ WF_vars(LiveTick)
    /\ WF_vars(Clock)

(***************************************************************************)
(* Functions of post_config_hook followed on their own: the instance is    *)
(* the one the class defaults give and stays as initialized; `probe` holds *)
(* the input, and the value once the function has computed it.             *)
(***************************************************************************)
instance == <<format, format_time, time_deltas, cycle, button_reset,
              button_change_time_format, button_change_format, active,
              active_time_format, cycle_time, now, result, t0, last, clicks,
              presses, late, reset_at, items, multiple_tz, times, local_zone,
              cycle_cfg>>

DefaultInstance ==
    \E t \in StartTimes :
        PostConfigHook(<<SlotLocal>>, <<FmtC, FmtX, FmtHM, FmtIcon>>, 0, t,
                       DefaultButtons, ZoneBerlin)

\* all strings over `chars` of length 0..n
Strings(chars, n) == UNION {[1..k -> chars] : k \in 0..n}

\* longest generated time-format string
MaxFormatTimeLen == 4

\* the characters the granularity depends on, and one directive (%H)
\* it does not depend on
DirectiveChars == {"%", "f", "S", "c", "X", "H", "{", "}"}

\* "%S", "%f", "%H:%M", "%f%H", "{%f}", "%%f", "%%%f", "%{x}%f"
ExampleFormatTimes ==
    {<<"%", "S">>, <<"%", "f">>, <<"%", "H", ":", "%", "M">>,
     <<"%", "f", "%", "H">>, <<"{", "%", "f", "}">>, <<"%", "%", "f">>,
     <<"%", "%", "%", "f">>, <<"%", "{", "x", "}", "%", "f">>}

FormatTimeInputs ==
    Strings(DirectiveChars, MaxFormatTimeLen) \cup ExampleFormatTimes
        \cup {FmtC, FmtX, FmtHM, FmtIcon, FmtNameHM, FmtMicro, FmtHMS}

InitGranularity ==
    /\ DefaultInstance
    /\ \E s \in FormatTimeInputs :
          probe = [kind |-> "time_delta", format_time |-> s, done |-> FALSE,
                   time_delta |-> -1]

\* one round of the loop `for format_time in self.format_time`
ComputeTimeDelta ==
    /\ probe.kind = "time_delta"
    /\ ~probe.done
    /\ probe' = [probe EXCEPT !.done = TRUE,
                               !.time_delta = TimeDelta(probe.format_time)]
    /\ UNCHANGED instance

SpecGranularity == InitGranularity /\ [][ComputeTimeDelta]_vars

\* most characters in a generated slot list, all slots together
MaxFormatChars == 4

\* braces, and one letter in both cases
TokenChars == {"{", "}", "G", "g"}

RECURSIVE SplitAt(_, _)
\* the list of slots made of string s cut after each position in `cuts`
SplitAt(s, cuts) ==
    IF cuts = {} THEN <<s>>
    ELSE LET c == CHOOSE x \in cuts : \A y \in cuts : x <= y
         IN <<SubSeq(s, 1, c)>>
               \o SplitAt(SubSeq(s, c + 1, Len(s)), {y - c : y \in cuts \ {c}})

\* `format` lists of non-empty slots, and the empty list
FormatInputs ==
    {<<>>} \cup
    UNION {{SplitAt(s, cuts) : s \in [1..k -> TokenChars],
                               cuts \in SUBSET (1..(k - 1))} :
              k \in 1..MaxFormatChars}

InitTokens ==
    /\ DefaultInstance
    /\ \E f \in FormatInputs :
          probe = [kind |-> "items", format |-> f, done |-> FALSE, keys |-> {}]

\* `self._items = {}` and the loop over the matches that fills it
RegisterItems ==
    /\ probe.kind = "items"
    /\ ~probe.done
    /\ probe' = [probe EXCEPT !.done = TRUE,
                               !.keys = DOMAIN Items(probe.format, local_zone)]
    /\ UNCHANGED instance

SpecTokens == InitTokens /\ [][RegisterItems]_vars

(***************************************************************************)
(* The icon index of clock(), in the arithmetic of Python floats (IEEE-754 *)
(* binary64, round to nearest, ties to even).  A non-negative value is     *)
(* bits / 2^frac: `bits` is a sequence of 0 and 1, most significant first. *)
(* Every value here is far from the exponent limits.                       *)
(***************************************************************************)
\* bits of the significand of a binary64
Significand == 53

\* zeros appended to a dividend: with a divisor below 2^7 the quotient then
\* has more than Significand + 1 significant bits
GuardBits == Significand + 9

Zeros(n) == [i \in 1..n |-> 0]

StripZeros(bits) ==
    IF \A i \in 1..Len(bits) : bits[i] = 0 THEN <<>>
    ELSE LET k == CHOOSE i \in 1..Len(bits) :
                      /\ bits[i] = 1
                      /\ \A j \in 1..(i - 1) : bits[j] = 0
         IN SubSeq(bits, k, Len(bits))

\* bits + 1
Increment(bits) ==
    IF \A i \in 1..Len(bits) : bits[i] = 1 THEN <<1>> \o Zeros(Len(bits))
    ELSE LET p == CHOOSE i \in 1..Len(bits) :
                      /\ bits[i] = 0
                      /\ \A j \in (i + 1)..Len(bits) : bits[j] = 1
         IN SubSeq(bits, 1, p - 1) \o <<1>> \o Zeros(Len(bits) - p)

\* the binary64 nearest to bits / 2^frac (plus a little, if `sticky`):
\* the first Significand significant bits, rounded on the rest
RoundToDouble(bits, frac, sticky) ==
    LET b == StripZeros(bits)
        n == Len(b)
    IN IF n <= Significand THEN [bits |-> b, frac |-> frac]
       ELSE LET keep == SubSeq(b, 1, Significand)
                guard == b[Significand + 1]
                rest == \/ sticky
                        \/ \E i \in (Significand + 2)..n : b[i] = 1
                up == guard = 1 /\ (rest \/ keep[Significand] = 1)
            IN [bits |-> IF up THEN Increment(keep) ELSE keep,
                frac |-> frac - (n - Significand)]

RECURSIVE ToBits(_)
ToBits(n) == IF n = 0 THEN <<>> ELSE Append(ToBits(n \div 2), n % 2)

RECURSIVE ToInt(_)
ToInt(bits) ==
    IF bits = <<>> THEN 0
    ELSE 2 * ToInt(SubSeq(bits, 1, Len(bits) - 1)) + bits[Len(bits)]

\* float(n)
FromInt(n) == [bits |-> ToBits(n), frac |-> 0]

\* the integer part, and the bits after the binary point
IntPart(x) ==
    IF Len(x.bits) > x.frac
    THEN ToInt(SubSeq(x.bits, 1, Len(x.bits) - x.frac))
    ELSE 0
FracBits(x) ==
    IF Len(x.bits) < x.frac
    THEN Zeros(x.frac - Len(x.bits)) \o x.bits
    ELSE SubSeq(x.bits, Len(x.bits) - x.frac + 1, Len(x.bits))

RECURSIVE LongDivision(_, _, _, _, _)
\* long division of bits[lo..hi] by d, with remainder r carried in: the
\* quotient bits and the remainder carried out (the upper half first, its
\* remainder into the lower half)
LongDivision(bits, lo, hi, r, d) ==
    IF lo > hi THEN [q |-> <<>>, r |-> r]
    ELSE IF lo = hi
         THEN LET y == 2 * r + bits[lo]
              IN [q |-> <<y \div d>>, r |-> y % d]
         ELSE LET mid == (lo + hi) \div 2
                  upper == LongDivision(bits, lo, mid, r, d)
                  lower == LongDivision(bits, mid + 1, hi, upper.r, d)
              IN [q |-> upper.q \o lower.q, r |-> lower.r]

\* x / d, for an integer d in 1..127
Divide(x, d) ==
    LET dividend == x.bits \o Zeros(GuardBits)
        res == LongDivision(dividend, 1, Len(dividend), 0, d)
    IN RoundToDouble(res.q, x.frac + GuardBits, res.r # 0)

Reverse(seq) == [i \in 1..Len(seq) |-> seq[Len(seq) + 1 - i]]

RECURSIVE LongMultiplication(_, _, _, _, _)
\* bits[lo..hi] times k, with carry c coming in from the right: the product
\* bits, least significant first, and the carry going out (the lower half
\* first, its carry into the upper half)
LongMultiplication(bits, lo, hi, c, k) ==
    IF lo > hi THEN [p |-> <<>>, c |-> c]
    ELSE IF lo = hi
         THEN LET y == bits[lo] * k + c
              IN [p |-> <<y % 2>>, c |-> y \div 2]
         ELSE LET mid == (lo + hi) \div 2
                  lower == LongMultiplication(bits, mid + 1, hi, c, k)
                  upper == LongMultiplication(bits, lo, mid, lower.c, k)
              IN [p |-> lower.p \o upper.p, c |-> upper.c]

\* x * k, for a non-negative integer k
Multiply(x, k) ==
    LET res == LongMultiplication(x.bits, 1, Len(x.bits), 0, k)
    IN RoundToDouble(ToBits(res.c) \o Reverse(res.p), x.frac, FALSE)

\* h + x, for a non-negative integer h and x < 1: the exact sum is the bits
\* of h followed by those of x
AddInt(h, x) == RoundToDouble(ToBits(h) \o FracBits(x), x.frac, FALSE)

\* x % d, for a positive integer d: exact
Fmod(x, d) ==
    [bits |-> StripZeros(ToBits(IntPart(x) % d) \o FracBits(x)),
     frac |-> x.frac]

\* int(math.floor(x))
Floor(x) == IntPart(x)

\* h = t.hour + t.minute / 60.; h = h % self.block_hours;
\* idx = int(math.floor(h / self.block_hours * (len(self.blocks))))
IconIndex(hour, minute, block_hours, nblocks) ==
    LET h == Fmod(AddInt(hour, Divide(FromInt(minute), 60)), block_hours)
    IN Floor(Multiply(Divide(h, block_hours), nblocks))

\* block_hours: an hour (a minute hand), the class default
BlockHours == {1, 12}

\* len(self.blocks): three glyphs, twelve, the class default
BlockCounts == {3, 12, 24}

InitIcon ==
    /\ DefaultInstance
    /\ \E hour \in 0..23, minute \in 0..59,
          bh \in BlockHours, n \in BlockCounts :
          probe = [kind |-> "icon", hour |-> hour, minute |-> minute,
                   block_hours |-> bh, blocks |-> n, done |-> FALSE,
                   idx |-> -1]

\* the `if '{icon}' in format_time` block of one poll
ComputeIcon ==
    /\ probe.kind = "icon"
    /\ ~probe.done
    /\ probe' = [probe EXCEPT !.done = TRUE,
                               !.idx = IconIndex(probe.hour, probe.minute,
                                                 probe.block_hours,
                                                 probe.blocks)]
    /\ UNCHANGED instance

SpecIcon == InitIcon /\ [][ComputeIcon]_vars

(***************************************************************************)
(* Properties.  `last` holds the most recent call, the instant it was made *)
(* at and the cycling state it found; the wall clock alone may have moved  *)
(* since.                                                                  *)
(***************************************************************************)
Clicked == last.op = "on_click"
Polled == last.op = "clock"
\* the cycling state is what the most recent call found
SlotKept == active = last.active
TimeFormatKept == active_time_format = last.active_time_format
DeadlineKept == cycle_time = last.cycle_time

\* C1: in every state after initialization, polls and clicks, the active
\* slot index is in [0, N) and the active time-format index is in [0, M).
C1_IndicesInRange ==
    /\ active \in 0..(N - 1)
    /\ active_time_format \in 0..(M - 1)

\* C2 as stated: with cycling enabled and no button events, after a poll at
\* `elapsed` seconds since initialization the active slot is
\* floor(elapsed / cycle) mod N, however the polls were spaced.
C2_AdvanceByElapsed ==
    (Polled /\ result.status = "ok" /\ cycle > 0 /\ clicks = 0)
        => active = ((last.at - t0) \div cycle) % N

\* C2 amended: the same, provided no poll so far came later than the cycle
\* deadline then in force (each auto-advance happened exactly at its
\* deadline).  With no slot configured the slot stays 0.
C2_AdvanceByElapsedWhenTimely ==
    (Polled /\ cycle > 0 /\ clicks = 0 /\ ~late)
        => active = IF N = 0 THEN 0 ELSE ((last.at - t0) \div cycle) % N

\* C2 witness: timely polls have taken a two-slot rotation through both
\* slots and back to the first.
C2_Witness ==
    /\ Polled /\ cycle > 0 /\ clicks = 0 /\ ~late
    /\ N = 2
    /\ (last.at - t0) \div cycle = 2
    /\ active = 0

\* the granularity deadline of a poll at instant t under time format i
GranularityDeadline(t, i) ==
    LET g == time_deltas[i + 1]
    IN IF g = 0 THEN 0 ELSE t + g - (t % g)

\* C3: the cached_until a poll returns is min(granularity deadline, cycle
\* deadline after the poll's auto-advance) when cycling is enabled, and the
\* granularity deadline alone when it is disabled.
C3_CachedUntil ==
    (Polled /\ result.status = "ok")
        => result.cached_until =
              IF cycle > 0
              THEN Min(GranularityDeadline(last.at, active_time_format), cycle_time)
              ELSE GranularityDeadline(last.at, active_time_format)

\* C3 witness: a poll under a minute-granularity format with cycling
\* enabled, at an instant where the minute boundary comes before the cycle
\* deadline, so the aligned boundary is what is returned.
C3_Witness ==
    /\ Polled /\ result.status = "ok" /\ cycle > 0
    /\ time_deltas[active_time_format + 1] = 60
    /\ last.at % 60 # 0
    /\ result.cached_until = last.at + 60 - (last.at % 60)
    /\ result.cached_until < cycle_time

\* C4: a click whose button is button_reset sets the active slot to 0 and
\* the cycle deadline to now + cycle, whatever they were, and leaves the
\* active time-format index alone.
C4_Reset ==
    (Clicked /\ last.button = button_reset)
        => /\ active = 0
           /\ cycle_time = last.at + cycle
           /\ TimeFormatKept
           /\ result.status = "done"

\* C4 witness: a reset click that found another slot active, another time
\* format active and a different deadline.
C4_Witness ==
    /\ Clicked /\ last.button = button_reset
    /\ cycle > 0
    /\ last.active # 0
    /\ last.active_time_format # 0
    /\ last.cycle_time # last.at + cycle

\* C5: with cycling enabled, from a reset click at instant t until t + cycle
\* and absent further clicks, no poll advances the slot: it stays 0 and the
\* deadline stays t + cycle.
C5_ResetNotOverridden ==
    (reset_at # -1 /\ cycle > 0 /\ now < reset_at + cycle)
        => /\ active = 0
           /\ cycle_time = reset_at + cycle

\* C5 witness: with several slots, a poll that returned inside the window,
\* at a later instant than the reset click, and left slot 0 active.
C5_Witness ==
    /\ reset_at # -1 /\ cycle > 0 /\ now < reset_at + cycle
    /\ Polled /\ last.at > reset_at
    /\ result.status = "ok"
    /\ N >= 2
    /\ active = 0

\* C6 as stated: a click whose button is button_change_format sets the
\* active slot to (active + 1) mod N and leaves the deadline and the active
\* time-format index alone.
C6_AdvanceSlot ==
    (Clicked /\ last.button = button_change_format /\ N > 0)
        => /\ active = (last.active + 1) % N
           /\ DeadlineKept
           /\ TimeFormatKept

\* C6 amended: the same for a click whose button is button_change_format
\* and is neither button_reset nor button_change_time_format (those come
\* first in on_click).  With no slot configured the click raises and changes
\* nothing.
C6_AdvanceSlotUnshadowed ==
    (/\ Clicked
     /\ last.button = button_change_format
     /\ last.button # button_reset
     /\ last.button # button_change_time_format)
        => /\ DeadlineKept
           /\ TimeFormatKept
           /\ IF N = 0
              THEN SlotKept /\ result.status = "error"
              ELSE active = (last.active + 1) % N /\ result.status = "done"

\* C6 witness: an advance-slot click on the last slot, with cycling enabled
\* and a time format other than the first active: the slot wraps to 0 and
\* the deadline is the one scheduled before the click.
C6_Witness ==
    /\ Clicked /\ last.branch = "format"
    /\ cycle > 0 /\ N >= 2
    /\ last.active = N - 1
    /\ active = 0
    /\ last.at > t0
    /\ cycle_time = last.cycle_time

\* C7 as stated: a click whose button is button_change_time_format sets the
\* active time-format index to (index + 1) mod M and leaves the active slot
\* and the deadline alone.
C7_AdvanceTimeFormat ==
    (Clicked /\ last.button = button_change_time_format /\ M > 0)
        => /\ active_time_format = (last.active_time_format + 1) % M
           /\ SlotKept
           /\ DeadlineKept

\* C7 amended: the same for a click whose button is
\* button_change_time_format and is not button_reset (which comes first in
\* on_click).  With no time format configured the index stays 0.
C7_AdvanceTimeFormatUnshadowed ==
    (/\ Clicked
     /\ last.button = button_change_time_format
     /\ last.button # button_reset)
        => /\ active_time_format =
                 IF M = 0 THEN 0 ELSE (last.active_time_format + 1) % M
           /\ SlotKept
           /\ DeadlineKept
           /\ result.status = "done"

\* C7 witness: an advance-time-format click on the last time format, with
\* another slot than the first active: the index wraps to 0.
C7_Witness ==
    /\ Clicked /\ last.branch = "time_format"
    /\ M >= 2
    /\ last.active_time_format = M - 1
    /\ active_time_format = 0
    /\ active # 0

\* C8 as stated: the active time-format index is the number of clicks on
\* button_change_time_format so far, mod M.  The index starts at 0 and only
\* those clicks move it, so between two states k clicks apart the index is
\* the same exactly when k is a multiple of M: M clicks return to it, fewer
\* (at least one) do not, whatever polls come in between.
C8_RoundTrip ==
    M > 0 => active_time_format = presses % M

\* C8 amended: the same when button_change_time_format is not also
\* button_reset.  With no time format configured the index stays 0.
C8_RoundTripUnshadowed ==
    button_change_time_format # button_reset
        => active_time_format = IF M = 0 THEN 0 ELSE presses % M

\* C8 witness: M = 2 clicks, with a poll after them, have brought the index
\* back to where it started.
C8_Witness ==
    /\ button_change_time_format # button_reset
    /\ M = 2
    /\ presses = 2
    /\ Polled /\ result.status = "ok"
    /\ active_time_format = 0

\* C9: a click whose button is none of button_reset,
\* button_change_time_format and button_change_format changes nothing of
\* the cycling state and raises nothing.
C9_UnrecognizedIgnored ==
    (/\ Clicked
     /\ last.button # button_reset
     /\ last.button # button_change_time_format
     /\ last.button # button_change_format)
        => /\ SlotKept
           /\ TimeFormatKept
           /\ DeadlineKept
           /\ result.status = "done"

\* C9 witness: an unrecognized click while all three actions are enabled,
\* cycling is on, slot and time format are not the first and the deadline
\* is already due.
C9_Witness ==
    /\ Clicked
    /\ last.button \notin {button_reset, button_change_time_format, button_change_format}
    /\ button_reset # 0 /\ button_change_time_format # 0 /\ button_change_format # 0
    /\ cycle > 0
    /\ active # 0
    /\ active_time_format # 0
    /\ last.at >= cycle_time

C11_DefaultsSubstituted ==
    /\ N >= 1
    /\ M >= 1
    /\ result.status # "error"

\* a token whose resolution fails: the local zone cannot be determined, the
\* two-letter code is no country code, the name is no zone name
ResolutionFails(tok) ==
    IF tok = TokenLocal THEN local_zone = NoLocalZone
    ELSE IF Len(tok) = 2 THEN tok \notin CountryCodes
    ELSE tok \notin AllTimezones

C12_LocalWitness ==
    /\ Polled /\ result.status = "ok"
    /\ local_zone = NoLocalZone
    /\ TokenLocal \in DOMAIN times
    /\ times[TokenLocal].kind = "literal"

\* C16: a poll at instant now with cycling enabled and now >= the cycle
\* deadline moves the active slot by exactly +1 mod N, however late it is,
\* and sets the deadline to now + cycle; any other poll leaves slot and
\* deadline as they were; no poll changes the active time-format index.
C16_AdvanceOncePerPoll ==
    Polled
        => /\ IF cycle > 0 /\ last.at >= last.cycle_time
              THEN /\ N > 0 => active = (last.active + 1) % N
                   /\ cycle_time = last.at + cycle
              ELSE SlotKept /\ DeadlineKept
           /\ TimeFormatKept

\* C16 with at least one slot configured: the same statement holds.
C16_AdvanceOncePerPollWithSlots ==
    N > 0 => C16_AdvanceOncePerPoll

\* C17: with exactly one slot configured the cycle is 0 whatever was
\* configured, so a poll leaves the active slot (0) and the cycle deadline
\* as they were, and the cached_until it returns is the granularity
\* deadline alone.
C17_SingleSlotNeverCycles ==
    N = 1
        => /\ cycle = 0
           /\ active = 0
           /\ Polled
                 => /\ SlotKept
                    /\ DeadlineKept
                    /\ result.status = "ok"
                          => result.cached_until =
                                GranularityDeadline(last.at, active_time_format)

\* C17 witness: one slot, a cycle of 1 s configured, and a poll that
\* returned after more than the configured interval, under a
\* minute-granularity format: slot 0 stays active and cached_until is the
\* next minute boundary.
C17_Witness ==
    /\ N = 1
    /\ cycle_cfg = 1
    /\ Polled /\ result.status = "ok"
    /\ last.at >= t0 + 2
    /\ time_deltas[active_time_format + 1] = 60
    /\ result.cached_until = last.at + 60 - (last.at % 60)
    /\ cycle_time = last.cycle_time

\* C18: the cached_until a poll at instant now returns is 0 exactly when
\* the granularity of the active time format is 0, and is greater than now
\* otherwise.
C18_CachedUntilInFuture ==
    (Polled /\ result.status = "ok")
        => /\ result.cached_until = 0 <=> time_deltas[active_time_format + 1] = 0
           /\ result.cached_until # 0 => result.cached_until > last.at

\* C18 witness: after a click, a poll that came later than the cycle
\* deadline in force returned the re-armed cycle deadline, after the poll
\* instant.
C18_Witness ==
    /\ Polled /\ result.status = "ok"
    /\ cycle > 0
    /\ clicks >= 1
    /\ last.at > last.cycle_time
    /\ result.cached_until = last.at + cycle
    /\ result.cached_until < last.at + 60 - (last.at % 60)

\* the state a click leaves when it performs exactly the reset, exactly the
\* advance-time-format, exactly the advance-slot action, or none
OnlyReset == active = 0 /\ cycle_time = last.at + cycle /\ TimeFormatKept
OnlyTimeFormat ==
    /\ active_time_format =
          IF M = 0 THEN 0 ELSE (last.active_time_format + 1) % M
    /\ SlotKept
    /\ DeadlineKept
OnlySlot ==
    /\ IF N = 0 THEN SlotKept ELSE active = (last.active + 1) % N
    /\ TimeFormatKept
    /\ DeadlineKept
NoAction == SlotKept /\ TimeFormatKept /\ DeadlineKept

\* C19: one click performs at most one of the three actions, the first in
\* the order reset, advance-time-format, advance-slot whose button it
\* carries; what only the later ones would touch stays as it was.
C19_FirstMatchOnly ==
    Clicked
        => IF last.button = button_reset THEN OnlyReset
           ELSE IF last.button = button_change_time_format THEN OnlyTimeFormat
           ELSE IF last.button = button_change_format THEN OnlySlot
           ELSE NoAction

\* C19 witness: all three actions on one non-zero button; a click on it
\* found slot 1 of three active and reset to slot 0 (advance-slot would
\* give slot 2) and left the time-format index (advance-time-format would
\* move it).
C19_Witness ==
    /\ Clicked
    /\ last.button # 0
    /\ last.button = button_reset
    /\ last.button = button_change_time_format
    /\ last.button = button_change_format
    /\ N = 3 /\ M >= 2
    /\ last.active = 1
    /\ active = 0
    /\ active_time_format = last.active_time_format
    /\ cycle_time = last.at + cycle

\* C13: the granularity computed for a time-format string is in {0, 1, 60}:
\* with the {...} spans and then the %% pairs removed, it is 0 if %f is
\* left, else 1 if %S, %c or %X is left, else 60.  So "%S" gives 1, "%f"
\* gives 0, "%H:%M" gives 60 and "%f%H" gives 0; a directive inside a
\* placeholder ("{%f}") or escaped ("%%f") does not count and gives 60,
\* while "%%%f" and "%{x}%f" give 0 and 60.
C13_FinestGranularityGoverns ==
    (probe.kind = "time_delta" /\ probe.done)
        => LET s == StripEscapedPercent(StripPlaceholders(probe.format_time))
               d == probe.time_delta
               fine == HasDirective(s, "f")
               seconds == HasDirective(s, "S") \/ HasDirective(s, "c")
                             \/ HasDirective(s, "X")
           IN /\ d \in {0, 1, 60}
              /\ d = 0 <=> fine
              /\ d = 1 <=> (~fine /\ seconds)
              /\ d = 60 <=> (~fine /\ ~seconds)
              /\ probe.format_time = <<"%", "S">> => d = 1
              /\ probe.format_time = <<"%", "f">> => d = 0
              /\ probe.format_time = <<"%", "H", ":", "%", "M">> => d = 60
              /\ probe.format_time = <<"%", "f", "%", "H">> => d = 0
              /\ probe.format_time = <<"{", "%", "f", "}">> => d = 60
              /\ probe.format_time = <<"%", "%", "f">> => d = 60
              /\ probe.format_time = <<"%", "%", "%", "f">> => d = 0
              /\ probe.format_time = <<"%", "{", "x", "}", "%", "f">> => d = 60

\* C13 witness: the granularity of "%S%f", which asks for seconds and for
\* microseconds, has been computed as 0.
C13_Witness ==
    /\ probe.kind = "time_delta" /\ probe.done
    /\ probe.format_time = <<"%", "S", "%", "f">>
    /\ probe.time_delta = 0

\* C15: the key set of the resolved-timezone table is exactly the set of
\* the distinct {token} strings inside the individual slots, compared as
\* they are written.
C15_KeysAreSlotTokens ==
    (probe.kind = "items" /\ probe.done)
        => probe.keys =
              UNION {Range(FindTokens(probe.format[i])) :
                        i \in 1..Len(probe.format)}

\* C14: at zone-local time hour:minute, with block_hours > 0 and a
\* non-empty blocks sequence, the icon index is
\* floor(((hour + minute/60) mod block_hours) / block_hours * len(blocks)),
\* computed here in minutes, and lies in [0, len(blocks)); with 24 blocks
\* and block_hours = 12 it is 0 at 00:00, 12 at 06:00 and 23 at 11:59.
C14_IconIndex ==
    (probe.kind = "icon" /\ probe.done)
        => /\ probe.idx =
                 (((60 * probe.hour + probe.minute) % (60 * probe.block_hours))
                     * probe.blocks) \div (60 * probe.block_hours)
           /\ probe.idx \in 0..(probe.blocks - 1)
           /\ (probe.blocks = 24 /\ probe.block_hours = 12)
                 => /\ (probe.hour = 0 /\ probe.minute = 0) => probe.idx = 0
                    /\ (probe.hour = 6 /\ probe.minute = 0) => probe.idx = 12
                    /\ (probe.hour = 11 /\ probe.minute = 59) => probe.idx = 23

\* C14, the part that holds: the index lies in [0, len(blocks)), is never
\* above the claimed value and at most one below it, and is the claimed
\* value whenever block_hours is 12.
C14_IconIndexInRange ==
    (probe.kind = "icon" /\ probe.done)
        => LET exact == (((60 * probe.hour + probe.minute)
                             % (60 * probe.block_hours)) * probe.blocks)
                           \div (60 * probe.block_hours)
           IN /\ probe.idx \in 0..(probe.blocks - 1)
              /\ probe.idx \in {exact - 1, exact}
              /\ probe.block_hours = 12 => probe.idx = exact

\* slot indices of the configurations followed
SlotIndices == UNION {0..(Len(f) - 1) : f \in ConfiguredFormats}

\* C20: with cycling enabled and at least two slots, while time advances,
\* the host polls and clicks stop after finitely many, every slot index in
\* [0, N) is the active slot again and again.
C20_EverySlotRecurs ==
    \A i \in SlotIndices :
        []<>((cycle > 0 /\ N >= 2 /\ i < N) => active = i)

\* C20 witness: with three slots and cycling enabled, after the last
\* click allowed, a poll found the last slot active and its auto-advance
\* brought the rotation back to slot 0.
C20_Witness ==
    /\ cycle > 0 /\ N = 3
    /\ clicks = MaxClicks
    /\ Polled
    /\ last.active = 2
    /\ active = 0

====
